---- MODULE Spec2Model ----
(***************************************************************************)
(* Model of googleChats.py: discovery of messages.json export files,       *)
(* per-message field extraction, worksheet row emission and the final     *)
(* save of the workbook.                                                   *)
(*                                                                         *)
(* Encoding of Python values:                                              *)
(*   - a str that the program inspects character by character (file and   *)
(*     directory names, export names, paths, the attachment cell) is a     *)
(*     sequence of one-character strings, '' being << >>;                  *)
(*   - a str the program only copies (sender, text, upload_ip) is a TLA+   *)
(*     string;                                                             *)
(*   - a raw created_date is '' (<< >>) or the tuple of the ten fields of  *)
(*     "<weekday>, <month> <day>, <year> at <h>:<m>:<s><sep><AM/PM> <tz>"; *)
(*   - a dict is a function from its keys, {} being << >>;                 *)
(*   - a cell value that may be None is None (<< >>) or Some(v) (<<v>>).   *)
(*                                                                         *)
(* The tree below the root holds readable directories and regular files   *)
(* only (no symbolic links), and an export name is one path component.     *)
(***************************************************************************)
EXTENDS Integers, Sequences, FiniteSets, TLC

VARIABLES
    argv,        \* sys.argv
    rootIsDir,   \* rootDir.is_dir()
    tree,        \* the entries below rootDir: a set of [path, kind]
    pc,          \* position of the run
    jsonFiles,   \* the list returned by findMessagesJson
    contents,    \* what json.load returned for each file loaded so far
    fileIdx,     \* index in jsonFiles of the file being parsed
    messages,    \* the messages list of the file being parsed
    msgIdx,      \* number of messages of that file already handled
    wbCreated,   \* Workbook() has been called
    rows,        \* the data rows of the worksheet, header excluded
    lastWrapped, \* row whose D/E cells got the wrap alignment in cleanup
    saves,       \* the worksheets written by wb.save, in order
    exitStatus   \* the process exit status, -1 while running

vars == <<argv, rootIsDir, tree, pc, jsonFiles, contents, fileIdx, messages,
          msgIdx, wbCreated, rows, lastWrapped, saves, exitStatus>>

-----------------------------------------------------------------------------
(* Bounds of the model *)

\* most entries (files and directories) below the root directory
MaxEntries == 4
\* most messages in one messages.json of a whole run
MaxMsgs == 2
\* most entries of previous_message_versions
MaxVersions == 2
\* most entries of attached_files
MaxAttach == 2

-----------------------------------------------------------------------------
(* Python values *)

None == << >>
Some(v) == <<v>>
EmptyDict == << >>
EmptyStr == << >>

\* dict.get(k, default)
Get(d, k, default) == IF k \in DOMAIN d THEN d[k] ELSE default

Last(s) == s[Len(s)]
Front(s) == SubSeq(s, 1, Len(s) - 1)

RECURSIVE Concat(_)
\* concatenation of a sequence of sequences
Concat(ss) == IF ss = << >> THEN << >> ELSE Head(ss) \o Concat(Tail(ss))

RECURSIVE Join(_, _)
\* sep.join(parts) on character sequences
Join(sep, parts) ==
    IF parts = << >> THEN << >>
    ELSE IF Len(parts) = 1 THEN parts[1]
    ELSE parts[1] \o sep \o Join(sep, Tail(parts))

\* str.replace(old, new) for a one-character old
Replace(s, old, new) == [i \in 1..Len(s) |-> IF s[i] = old THEN new ELSE s[i]]

UpperToLower ==
    [A |-> "a", B |-> "b", C |-> "c", D |-> "d", E |-> "e", F |-> "f", G |-> "g",
     H |-> "h", I |-> "i", J |-> "j", K |-> "k", L |-> "l", M |-> "m", N |-> "n",
     O |-> "o", P |-> "p", Q |-> "q", R |-> "r", S |-> "s", T |-> "t", U |-> "u",
     V |-> "v", W |-> "w", X |-> "x", Y |-> "y", Z |-> "z"]

\* str.lower()
Lower(s) == [i \in 1..Len(s) |->
                IF s[i] \in DOMAIN UpperToLower THEN UpperToLower[s[i]] ELSE s[i]]

-----------------------------------------------------------------------------
(* The directory tree below rootDir *)

\* 'messages.json', the name findMessagesJson compares with
TargetName == <<"m","e","s","s","a","g","e","s",".","j","s","o","n">>
MixedName == <<"M","e","s","s","a","g","e","s",".","J","S","O","N">>
LongerName == <<"x","m","e","s","s","a","g","e","s",".","j","s","o","n">>
ChatDirName == <<"D","M","1">>
TargetDirName == <<"M","E","S","S","A","G","E","S",".","j","s","o","n">>

FileNames == {TargetName, MixedName, LongerName}
DirNames == {ChatDirName, TargetDirName}
EntryNames == FileNames \cup DirNames

\* the resolved absolute path of the directory given on the command line
RootDir == << <<"t","m","p">>, <<"G","r","o","u","p","s">> >>

KindOf(name) == IF name \in DirNames THEN "dir" ELSE "file"

\* the entries that may be added to tree t: a child of the root or of a directory
NewEntries(t) ==
    LET parents == {<< >>} \cup {n.path : n \in {e \in t : e.kind = "dir"}}
        all == {[path |-> Append(p, nm), kind |-> KindOf(nm)] :
                    p \in parents, nm \in EntryNames}
    IN  all \ t

RECURSIVE TreesUpTo(_)
\* every tree of at most n entries
TreesUpTo(n) ==
    IF n = 0 THEN {{}}
    ELSE LET prev == TreesUpTo(n - 1)
         IN  prev \cup UNION {{t \cup {e} : e \in NewEntries(t)} : t \in prev}

Trees == TreesUpTo(MaxEntries)

\* the orders in which os.scandir may list names
ScanOrders == {o \in [1..Cardinality(EntryNames) -> EntryNames] :
                  \A i, j \in DOMAIN o : i # j => o[i] # o[j]}

-----------------------------------------------------------------------------
(* findMessagesJson *)

\* the entries directly inside the directory dir (a path relative to the root)
Children(t, dir) ==
    {n \in t : Len(n.path) = Len(dir) + 1 /\ Front(n.path) = dir}

\* os.scandir(dir): the entries of dir, in the order the file system lists them
Listing(t, dir, order) ==
    LET Present(nm) == \E n \in Children(t, dir) : Last(n.path) = nm
        names == SelectSeq(order, Present)
    IN  [i \in 1..Len(names) |->
            CHOOSE n \in Children(t, dir) : Last(n.path) = names[i]]

RECURSIVE IterateDirectories(_, _, _)
\* the '**' part of rglob: dir itself, then every directory below it, pre-order
IterateDirectories(t, dir, order) ==
    LET IsDir(n) == n.kind = "dir"
        subs == SelectSeq(Listing(t, dir, order), IsDir)
    IN  <<dir>> \o Concat([i \in 1..Len(subs) |->
                               IterateDirectories(t, subs[i].path, order)])

\* rootDir.rglob('*'): every entry below the root, directory by directory
RGlob(t, order) ==
    LET dirs == IterateDirectories(t, << >>, order)
    IN  Concat([i \in 1..Len(dirs) |-> Listing(t, dirs[i], order)])

\* variant: the name is compared without lower()
IsMessagesJsonExact(p) == p.kind = "file" /\ Last(p.path) = TargetName

\* p.is_file() and p.name.lower() == 'messages.json'
IsMessagesJson(p) == p.kind = "file" /\ Lower(Last(p.path)) = TargetName

findMessagesJson(rootDir, t, order) ==
    LET hits == SelectSeq(RGlob(t, order), IsMessagesJson)
    IN  [i \in 1..Len(hits) |-> rootDir \o hits[i].path]

-----------------------------------------------------------------------------
(* parseGoogleDate *)

\* raw timestamps of the export; the sep field is the character before AM/PM
SP == " "
NNBSP == "u202f"
Date1 == <<"Friday", "October", 25, 2024, 3, 20, 36, SP, "AM", "UTC">>
Date2 == <<"Saturday", "October", 26, 2024, 12, 5, 9, NNBSP, "PM", "UTC">>
Date3 == <<"Sunday", "October", 27, 2024, 12, 0, 1, NNBSP, "AM", "UTC">>
\* 15:20:36 does not match %I
BadDate == <<"Friday", "October", 25, 2024, 15, 20, 36, SP, "PM", "UTC">>

Weekdays == {"Monday", "Tuesday", "Wednesday", "Thursday", "Friday", "Saturday",
             "Sunday"}
Months == <<"January", "February", "March", "April", "May", "June", "July",
            "August", "September", "October", "November", "December">>
MonthNumber(name) == CHOOSE i \in DOMAIN Months : Months[i] = name
IsLeap(y) == (y % 4 = 0 /\ y % 100 # 0) \/ y % 400 = 0
DaysIn(mo, y) ==
    IF mo = 2 THEN (IF IsLeap(y) THEN 29 ELSE 28)
    ELSE IF mo \in {4, 6, 9, 11} THEN 30 ELSE 31

\* raw.replace(NNBSP, ' ').strip(): the separator is the one field that may hold it
Cleaned(raw) == [raw EXCEPT ![8] = IF @ = NNBSP THEN SP ELSE @]

\* does datetime.strptime(c, '%A, %B %d, %Y at %I:%M:%S %p %Z') accept c
StrptimeAccepts(c) ==
    /\ c[1] \in Weekdays
    /\ \E i \in DOMAIN Months : Months[i] = c[2]
    /\ c[4] \in 1..9999
    /\ c[3] \in 1..DaysIn(MonthNumber(c[2]), c[4])
    /\ c[5] \in 1..12
    /\ c[6] \in 0..59
    /\ c[7] \in 0..59
    /\ c[8] = SP
    /\ c[9] \in {"AM", "PM"}
    /\ c[10] \in {"UTC", "GMT"}

\* the datetime strptime builds: <<year, month, day, hour, minute, second>>
Strptime(c) ==
    LET hour == IF c[9] = "AM" THEN (IF c[5] = 12 THEN 0 ELSE c[5])
                ELSE (IF c[5] = 12 THEN 12 ELSE c[5] + 12)
    IN  <<c[4], MonthNumber(c[2]), c[3], hour, c[6], c[7]>>

\* [error, value]: error is "" or the exception raised
parseGoogleDate(raw) ==
    IF raw = EmptyStr THEN [error |-> "", value |-> EmptyStr]
    ELSE IF StrptimeAccepts(Cleaned(raw))
         THEN [error |-> "", value |-> Strptime(Cleaned(raw))]
         ELSE [error |-> "ValueError", value |-> EmptyStr]

-----------------------------------------------------------------------------
(* parseChats: the body of the loop over the messages of one file *)

\* message.get('creator',{}).get('email','')
Sender(message) == Get(Get(message, "creator", EmptyDict), "email", "")

RECURSIVE ScanVersions(_, _)
\* for upload in uploads: if upload['created_date'] != '': datetime = ...
ScanVersions(uploads, datetime) ==
    IF uploads = << >> THEN [error |-> "", value |-> datetime]
    ELSE IF "created_date" \notin DOMAIN Head(uploads)
         THEN [error |-> "KeyError", value |-> datetime]
         ELSE ScanVersions(Tail(uploads),
                           IF Head(uploads)["created_date"] # EmptyStr
                           THEN Head(uploads)["created_date"] ELSE datetime)

\* the raw timestamp of a message: created_date, else from the earlier versions
RawDate(message) ==
    LET datetime == Get(message, "created_date", EmptyStr)
    IN  IF datetime # EmptyStr THEN [error |-> "", value |-> datetime]
        ELSE ScanVersions(Get(message, "previous_message_versions", <<EmptyDict>>),
                          datetime)

\* [f.get('export_name', '') for f in message.get('attached_files', [])]
AttachList(message) ==
    LET files == Get(message, "attached_files", << >>)
    IN  [i \in 1..Len(files) |-> Get(files[i], "export_name", EmptyStr)]

AttachmentNames(message) == Join(<<"\n">>, AttachList(message))

\* the IP address cell value: Some(str), or None
IpAddress(message) ==
    IF Get(message, "upload_metadata", << >>) # << >>
    THEN LET backend == Get(message["upload_metadata"][1],
                            "backend_upload_metadata", EmptyDict)
         IN  IF "upload_ip" \in DOMAIN backend THEN Some(backend["upload_ip"])
             ELSE None
    ELSE Some("")

\* pathlib's parent / name
PathJoin(parent, name) == IF name = EmptyStr THEN parent ELSE Append(parent, name)

RECURSIVE CommonPrefixLen(_, _)
CommonPrefixLen(a, b) ==
    IF a = << >> \/ b = << >> \/ Head(a) # Head(b) THEN 0
    ELSE 1 + CommonPrefixLen(Tail(a), Tail(b))

\* os.path.relpath(path, start=start) on absolute, normalised paths
RelPath(path, start) ==
    LET i == CommonPrefixLen(path, start)
        parts == [k \in 1..(Len(start) - i) |-> <<".", ".">>]
                    \o SubSeq(path, i + 1, Len(path))
    IN  IF parts = << >> THEN <<".">> ELSE Join(<<"/">>, parts)

\* variant: the target keeps the backslashes of the name
LinkTargetRaw(jsonPath, firstName, workbookDir) ==
    RelPath(PathJoin(Front(jsonPath), firstName), workbookDir)

\* the hyperlink target of the attachment cell
LinkTarget(jsonPath, firstName, workbookDir) ==
    Replace(RelPath(PathJoin(Front(jsonPath), firstName), workbookDir), "\\", "/")

\* the list given to outWS.append
NewRow(jsonPath, message) ==
    [chatID     |-> Last(Front(jsonPath)),
     datetime   |-> parseGoogleDate(RawDate(message).value).value,
     sender     |-> Sender(message),
     text       |-> Get(message, "text", ""),
     attachment |-> AttachmentNames(message),
     ip         |-> IpAddress(message),
     hyperlink  |-> None,
     style      |-> "Normal"]

\* a row that exists only because one of its cells was written
BlankRow ==
    [chatID |-> EmptyStr, datetime |-> EmptyStr, sender |-> "", text |-> "",
     attachment |-> EmptyStr, ip |-> None, hyperlink |-> None, style |-> "Normal"]

\* rows of the header
HeaderRows == 1

\* variant: max_row read one row too far
MaxRowOff(ws) == HeaderRows + Len(ws) + 1

\* outWS.max_row
MaxRow(ws) == HeaderRows + Len(ws)

\* outWS.cell(row=rowIdx, column=5) gets value, hyperlink and style
WriteLink(ws, rowIdx, value, target) ==
    LET i == rowIdx - HeaderRows
        grown == IF i > Len(ws) THEN ws \o [k \in 1..(i - Len(ws)) |-> BlankRow]
                 ELSE ws
    IN  [grown EXCEPT ![i].attachment = value,
                      ![i].hyperlink = Some(target),
                      ![i].style = "Hyperlink"]

\* the exception the loop body raises for this message, "" if none
MessageError(message) ==
    IF RawDate(message).error # "" THEN RawDate(message).error
    ELSE parseGoogleDate(RawDate(message).value).error

\* variant: the new row is inserted above the earlier rows
AppendMessageFront(ws, jsonPath, message, workbookDir) ==
    <<NewRow(jsonPath, message)>> \o ws

\* the worksheet after the loop body has run for one message without raising
AppendMessage(ws, jsonPath, message, workbookDir) ==
    LET appended == Append(ws, NewRow(jsonPath, message))
        rowIdx == MaxRow(appended)
        attachList == AttachList(message)
    IN  IF attachList # << >>
        THEN WriteLink(appended, rowIdx, AttachmentNames(message),
                       LinkTarget(jsonPath, attachList[1], workbookDir))
        ELSE appended

-----------------------------------------------------------------------------
(* Inputs: messages, file contents, command lines *)

SeqsUpTo(S, n) == UNION {[1..k -> S] : k \in 0..n}

\* a dict with the key k, for each value, and the dict without it
OptField(k, vals) == {EmptyDict} \cup {k :> v : v \in vals}

ExportA == <<"a", ".", "p", "n", "g">>
ExportB == <<"v", "\\", "b">>
Ip1 == "203.0.113.7"
Ip2 == "198.51.100.2"

VersionEntries ==
    {EmptyDict, [created_date |-> EmptyStr], [created_date |-> Date2],
     [created_date |-> Date3]}
AttachEntries == {EmptyDict, [export_name |-> ExportA], [export_name |-> ExportB]}
UploadLists ==
    {<< >>, <<EmptyDict>>,
     <<[backend_upload_metadata |-> EmptyDict]>>,
     <<[backend_upload_metadata |-> [upload_ip |-> Ip1]]>>,
     <<[backend_upload_metadata |-> [upload_ip |-> Ip1]],
       [backend_upload_metadata |-> [upload_ip |-> Ip2]]>>,
     <<EmptyDict, [backend_upload_metadata |-> [upload_ip |-> Ip2]]>>}

\* messages that vary in timestamp, versions, attachments and upload metadata
CoreMessages ==
    {d @@ v @@ a @@ u @@ [creator |-> [email |-> "a@example.org"], text |-> "hello"] :
        d \in OptField("created_date", {EmptyStr, Date1, BadDate}),
        v \in OptField("previous_message_versions",
                       SeqsUpTo(VersionEntries, MaxVersions)),
        a \in OptField("attached_files", SeqsUpTo(AttachEntries, MaxAttach)),
        u \in OptField("upload_metadata", UploadLists)}

\* messages that vary in creator and text
PlainMessages ==
    {c @@ t @@ [created_date |-> Date1] :
        c \in OptField("creator", {EmptyDict, [email |-> "a@example.org"]}),
        t \in OptField("text", {"hello"})}

AllMessages == CoreMessages \cup PlainMessages

MsgPlain ==
    [creator |-> [email |-> "a@example.org"], created_date |-> Date1,
     text |-> "hello"]
MsgVideo ==
    [creator |-> [email |-> "b@example.org"], created_date |-> EmptyStr,
     previous_message_versions |-> <<[created_date |-> Date2]>>,
     attached_files |-> <<[export_name |-> ExportA], [export_name |-> ExportB]>>,
     upload_metadata |-> <<[backend_upload_metadata |-> [upload_ip |-> Ip1]]>>]
MsgBadDate == [created_date |-> BadDate, text |-> "hello"]

\* the messages of the whole-run specification
RunMessages == {MsgPlain, MsgVideo, MsgBadDate}

\* what open + json.load gives: not valid JSON, or the document
FileContents ==
    {[valid |-> FALSE, doc |-> EmptyDict], [valid |-> TRUE, doc |-> EmptyDict]}
        \cup {[valid |-> TRUE, doc |-> [messages |-> ms]] :
                 ms \in SeqsUpTo(RunMessages, MaxMsgs)}

Argvs == {<<"googleChats.py">>, <<"googleChats.py", "Groups">>,
          <<"googleChats.py", "Groups", "extra">>}

\* trees of the whole-run specification: every file is named messages.json
RunTrees == {t \in Trees : \A n \in t : n.kind = "file" => Last(n.path) = TargetName}

\* the tree that holds the file at the relative path p and its directories
PathTree(p) ==
    {[path |-> SubSeq(p, 1, k), kind |-> IF k = Len(p) THEN "file" ELSE "dir"] :
        k \in 1..Len(p)}

\* export files of the single-message specification
MsgJsonPaths == {<<TargetName>>, <<ChatDirName, MixedName>>}

-----------------------------------------------------------------------------
(* main, createWorkbook and parseChats *)

Init ==
    /\ argv \in Argvs
    /\ rootIsDir \in BOOLEAN
    /\ tree \in (IF rootIsDir THEN RunTrees ELSE {{}})
    /\ pc = "start"
    /\ jsonFiles = << >>
    /\ contents = << >>
    /\ fileIdx = 0
    /\ messages = << >>
    /\ msgIdx = 0
    /\ wbCreated = FALSE
    /\ rows = << >>
    /\ lastWrapped = 0
    /\ saves = << >>
    /\ exitStatus = -1

\* main: len(sys.argv) != 2
UsageExit ==
    /\ pc = "start"
    /\ Len(argv) # 2
    /\ pc' = "exit"
    /\ exitStatus' = 1
    /\ UNCHANGED <<argv, rootIsDir, tree, jsonFiles, contents, fileIdx, messages,
                   msgIdx, wbCreated, rows, lastWrapped, saves>>

\* main: not rootDir.is_dir()
NotDirExit ==
    /\ pc = "start"
    /\ Len(argv) = 2
    /\ ~rootIsDir
    /\ pc' = "exit"
    /\ exitStatus' = 1
    /\ UNCHANGED <<argv, rootIsDir, tree, jsonFiles, contents, fileIdx, messages,
                   msgIdx, wbCreated, rows, lastWrapped, saves>>

\* variant: discovery runs whatever the arguments are
DiscoverUnchecked ==
    /\ pc = "start"
    /\ \E order \in ScanOrders : jsonFiles' = findMessagesJson(RootDir, tree, order)
    /\ pc' = "discovered"
    /\ UNCHANGED <<argv, rootIsDir, tree, contents, fileIdx, messages, msgIdx,
                   wbCreated, rows, lastWrapped, saves, exitStatus>>

\* main: jsonFiles = findMessagesJson(rootDir)
Discover ==
    /\ pc = "start"
    /\ Len(argv) = 2
    /\ rootIsDir
    /\ \E order \in ScanOrders : jsonFiles' = findMessagesJson(RootDir, tree, order)
    /\ pc' = "discovered"
    /\ UNCHANGED <<argv, rootIsDir, tree, contents, fileIdx, messages, msgIdx,
                   wbCreated, rows, lastWrapped, saves, exitStatus>>

\* main: not jsonFiles
NoFilesExit ==
    /\ pc = "discovered"
    /\ jsonFiles = << >>
    /\ pc' = "exit"
    /\ exitStatus' = 0
    /\ UNCHANGED <<argv, rootIsDir, tree, jsonFiles, contents, fileIdx, messages,
                   msgIdx, wbCreated, rows, lastWrapped, saves>>

\* variant: the workbook is created even when no file was found
CreateWorkbookAlways ==
    /\ pc = "discovered"
    /\ wbCreated' = TRUE
    /\ rows' = << >>
    /\ fileIdx' = 1
    /\ pc' = "files"
    /\ UNCHANGED <<argv, rootIsDir, tree, jsonFiles, contents, messages, msgIdx,
                   lastWrapped, saves, exitStatus>>

\* createWorkbook up to the call of parseChats: the sheet with its header row
CreateWorkbook ==
    /\ pc = "discovered"
    /\ jsonFiles # << >>
    /\ wbCreated' = TRUE
    /\ rows' = << >>
    /\ fileIdx' = 1
    /\ pc' = "files"
    /\ UNCHANGED <<argv, rootIsDir, tree, jsonFiles, contents, messages, msgIdx,
                   lastWrapped, saves, exitStatus>>

\* parseChats: open the next file and json.load(f).get('messages', [])
OpenFile ==
    /\ pc = "files"
    /\ fileIdx <= Len(jsonFiles)
    /\ \E c \in FileContents :
          /\ c.valid
          /\ contents' = Append(contents, c)
          /\ messages' = Get(c.doc, "messages", << >>)
    /\ msgIdx' = 0
    /\ pc' = "msgs"
    /\ UNCHANGED <<argv, rootIsDir, tree, jsonFiles, fileIdx, wbCreated, rows,
                   lastWrapped, saves, exitStatus>>

\* parseChats: json.load raises on a file that is not valid JSON
LoadRaises ==
    /\ pc = "files"
    /\ fileIdx <= Len(jsonFiles)
    /\ \E c \in FileContents : ~c.valid
    /\ pc' = "crashed"
    /\ exitStatus' = 1
    /\ UNCHANGED <<argv, rootIsDir, tree, jsonFiles, contents, fileIdx, messages,
                   msgIdx, wbCreated, rows, lastWrapped, saves>>

\* parseChats: the loop body for the next message, ending in append and hyperlink
HandleMessage ==
    /\ pc = "msgs"
    /\ msgIdx < Len(messages)
    /\ MessageError(messages[msgIdx + 1]) = ""
    /\ rows' = AppendMessage(rows, jsonFiles[fileIdx], messages[msgIdx + 1], RootDir)
    /\ msgIdx' = msgIdx + 1
    /\ UNCHANGED <<argv, rootIsDir, tree, pc, jsonFiles, contents, fileIdx, messages,
                   wbCreated, lastWrapped, saves, exitStatus>>

\* parseChats: the loop body raises (KeyError, ValueError) before the append
MessageRaises ==
    /\ pc = "msgs"
    /\ msgIdx < Len(messages)
    /\ MessageError(messages[msgIdx + 1]) # ""
    /\ pc' = "crashed"
    /\ exitStatus' = 1
    /\ UNCHANGED <<argv, rootIsDir, tree, jsonFiles, contents, fileIdx, messages,
                   msgIdx, wbCreated, rows, lastWrapped, saves>>

\* parseChats: the messages of the file are exhausted, on to the next file
NextFile ==
    /\ pc = "msgs"
    /\ msgIdx = Len(messages)
    /\ fileIdx' = fileIdx + 1
    /\ pc' = "files"
    /\ UNCHANGED <<argv, rootIsDir, tree, jsonFiles, contents, messages, msgIdx,
                   wbCreated, rows, lastWrapped, saves, exitStatus>>

\* createWorkbook: cleanup(ws) once parseChats has returned
Cleanup ==
    /\ pc = "files"
    /\ fileIdx > Len(jsonFiles)
    /\ lastWrapped' = MaxRow(rows)
    /\ pc' = "save"
    /\ UNCHANGED <<argv, rootIsDir, tree, jsonFiles, contents, fileIdx, messages,
                   msgIdx, wbCreated, rows, saves, exitStatus>>

\* variant: the workbook is saved also when parsing raised
SaveOnAbort ==
    /\ pc \in {"save", "crashed"}
    /\ saves' = Append(saves, rows)
    /\ pc' = IF pc = "save" THEN "done" ELSE "aborted"
    /\ exitStatus' = IF pc = "save" THEN 0 ELSE 1
    /\ UNCHANGED <<argv, rootIsDir, tree, jsonFiles, contents, fileIdx, messages,
                   msgIdx, wbCreated, rows, lastWrapped>>

\* createWorkbook: wb.save(outPath), then main returns
Save ==
    /\ pc = "save"
    /\ saves' = Append(saves, rows)
    /\ pc' = "done"
    /\ exitStatus' = 0
    /\ UNCHANGED <<argv, rootIsDir, tree, jsonFiles, contents, fileIdx, messages,
                   msgIdx, wbCreated, rows, lastWrapped>>

Next ==
    \/ UsageExit
    \/ NotDirExit
    \/ Discover
    \/ NoFilesExit
    \/ CreateWorkbook
    \/ OpenFile
    \/ LoadRaises
    \/ HandleMessage
    \/ MessageRaises
    \/ NextFile
    \/ Cleanup
    \/ Save

Spec == Init /\ [][Next]_vars

-----------------------------------------------------------------------------
(* Discovery alone, over every tree *)

InitDisc ==
    /\ argv = <<"googleChats.py", "Groups">>
    /\ rootIsDir = TRUE
    /\ tree \in Trees
    /\ pc = "start"
    /\ jsonFiles = << >>
    /\ contents = << >>
    /\ fileIdx = 0
    /\ messages = << >>
    /\ msgIdx = 0
    /\ wbCreated = FALSE
    /\ rows = << >>
    /\ lastWrapped = 0
    /\ saves = << >>
    /\ exitStatus = -1

NextDisc == Discover

SpecDisc == InitDisc /\ [][NextDisc]_vars

-----------------------------------------------------------------------------
(* The loop body alone, over every message: one file holding one message *)

InitMsg ==
    /\ argv = <<"googleChats.py", "Groups">>
    /\ rootIsDir = TRUE
    /\ \E p \in MsgJsonPaths :
          /\ tree = PathTree(p)
          /\ jsonFiles = <<RootDir \o p>>
    /\ \E m \in AllMessages :
          /\ contents = <<[valid |-> TRUE, doc |-> [messages |-> <<m>>]]>>
          /\ messages = <<m>>
    /\ pc = "msgs"
    /\ fileIdx = 1
    /\ msgIdx = 0
    /\ wbCreated = TRUE
    /\ rows = << >>
    /\ lastWrapped = 0
    /\ saves = << >>
    /\ exitStatus = -1

NextMsg == HandleMessage \/ MessageRaises

SpecMsg == InitMsg /\ [][NextMsg]_vars

-----------------------------------------------------------------------------
(* What the run has read so far *)

\* the messages list of the i-th opened file
FileMessages(i) == Get(contents[i].doc, "messages", << >>)

\* the messages whose loop body has completed, each with its export file, in the
\* order of jsonFiles and then of the file's messages list
Handled ==
    Concat([i \in 1..Len(contents) |->
               LET n == IF i = fileIdx THEN msgIdx ELSE Len(FileMessages(i))
               IN  [k \in 1..n |-> [path |-> jsonFiles[i],
                                    message |-> FileMessages(i)[k]]]])

RECURSIVE TotalMessages(_)
\* the number of messages in the first n opened files
TotalMessages(n) ==
    IF n = 0 THEN 0 ELSE TotalMessages(n - 1) + Len(FileMessages(n))

Versions(m) == Get(m, "previous_message_versions", << >>)

\* the entries of previous_message_versions with a non-empty created_date
Dated(m) ==
    {i \in DOMAIN Versions(m) :
        /\ "created_date" \in DOMAIN Versions(m)[i]
        /\ Versions(m)[i]["created_date"] # EmptyStr}

Min(S) == CHOOSE x \in S : \A y \in S : x <= y

NoTopLevelDate(m) == Get(m, "created_date", EmptyStr) = EmptyStr

-----------------------------------------------------------------------------
(* Claims *)

\* C1: for a message with an empty top-level created_date and at least one
\* earlier version with a non-empty created_date, the timestamp of its row is
\* that of the FIRST such version in list order.
C1_FirstDatedVersionWins ==
    \A i \in DOMAIN rows \cap DOMAIN Handled :
        LET m == Handled[i].message
        IN  (NoTopLevelDate(m) /\ Dated(m) # {}) =>
                rows[i].datetime =
                    parseGoogleDate(Versions(m)[Min(Dated(m))]["created_date"]).value

\* C2: a message with an empty or missing created_date whose
\* previous_message_versions is absent, empty or without any non-empty
\* created_date never makes the loop body raise, and its row has an empty
\* datetime cell.
C2_NoDateGivesBlankCell ==
    /\ \A i \in DOMAIN rows \cap DOMAIN Handled :
          LET m == Handled[i].message
          IN  (NoTopLevelDate(m) /\ Dated(m) = {}) => rows[i].datetime = EmptyStr
    /\ ~ /\ pc = "crashed"
         /\ msgIdx < Len(messages)
         /\ NoTopLevelDate(messages[msgIdx + 1])
         /\ Dated(messages[msgIdx + 1]) = {}

\* C3: every message handled so far has exactly one data row, and a run that
\* completes has handled every message of every discovered file, so the data
\* rows number the messages of all files.
C3_OneRowPerMessage ==
    /\ Len(rows) = Len(Handled)
    /\ pc = "done" =>
          /\ Len(contents) = Len(jsonFiles)
          /\ Len(rows) = TotalMessages(Len(jsonFiles))

WitnessC3 ==
    /\ pc = "done"
    /\ Len(jsonFiles) >= 2
    /\ Len(rows) >= 3
    /\ \E i \in DOMAIN rows : rows[i].hyperlink # None

\* C4: in a completed run the data rows follow the order of jsonFiles and,
\* within a file, of its messages list: the i-th row is the row of the i-th
\* message in that order.
C4_RowsInDiscoveryOrder ==
    pc = "done" =>
        /\ DOMAIN rows = DOMAIN Handled
        /\ \A i \in DOMAIN rows :
              /\ rows[i].chatID = Last(Front(Handled[i].path))
              /\ rows[i].sender = Sender(Handled[i].message)
              /\ rows[i].text = Get(Handled[i].message, "text", "")
        /\ \A i, j \in DOMAIN Handled :
              i < j =>
                  \E a, b \in DOMAIN jsonFiles :
                      /\ a <= b
                      /\ jsonFiles[a] = Handled[i].path
                      /\ jsonFiles[b] = Handled[j].path

WitnessC4 ==
    /\ pc = "done"
    /\ Len(jsonFiles) >= 2
    /\ Len(rows) >= 3
    /\ rows[1].sender # rows[2].sender
    /\ rows[1].chatID = rows[2].chatID
    /\ rows[2].chatID # rows[3].chatID

\* what C5 expects in the IP address cell
ExpectedIp(m) ==
    LET um == Get(m, "upload_metadata", << >>)
    IN  IF um = << >> THEN ""
        ELSE IF "backend_upload_metadata" \notin DOMAIN um[1] THEN ""
        ELSE IF "upload_ip" \notin DOMAIN um[1]["backend_upload_metadata"] THEN ""
        ELSE um[1]["backend_upload_metadata"]["upload_ip"]

\* C5: the IP address cell is the empty string when the address is absent at
\* any level, else the upload_ip of the first upload_metadata entry.
C5_IpOrEmptyString ==
    \A i \in DOMAIN rows \cap DOMAIN Handled :
        rows[i].ip = Some(ExpectedIp(Handled[i].message))

\* the first attachment's path relative to the workbook directory, with '/'
ExpectedLink(path, name) ==
    LET dirs == SubSeq(path, Len(RootDir) + 1, Len(path) - 1)
        slashed == [k \in 1..Len(name) |-> IF name[k] = "\\" THEN "/" ELSE name[k]]
        parts == IF name = EmptyStr THEN dirs ELSE Append(dirs, slashed)
    IN  IF parts = << >> THEN <<".">> ELSE Join(<<"/">>, parts)

\* C6: the attachment cell shows the export names of attached_files joined by
\* newlines in list order; it has a hyperlink exactly when attached_files is
\* non-empty, and the hyperlink is the first attachment's path, relative to the
\* workbook directory, with forward slashes.
C6_AttachmentCell ==
    \A i \in DOMAIN rows \cap DOMAIN Handled :
        LET files == Get(Handled[i].message, "attached_files", << >>)
            names == [k \in 1..Len(files) |-> Get(files[k], "export_name", EmptyStr)]
        IN  /\ rows[i].attachment = Join(<<"\n">>, names)
            /\ files = << >> => rows[i].hyperlink = None /\ rows[i].attachment = EmptyStr
            /\ files # << >> =>
                  rows[i].hyperlink = Some(ExpectedLink(Handled[i].path, names[1]))

WitnessC6 ==
    /\ Len(rows) = 1
    /\ Len(jsonFiles[1]) > Len(RootDir) + 1
    /\ rows[1].attachment = ExportA \o <<"\n">> \o ExportB
    /\ rows[1].hyperlink = Some(ChatDirName \o <<"/">> \o ExportA)

\* C7: when discovery returns no file, main exits with status 0 and no workbook
\* is created or saved and no file is opened.
C7_NoFilesNoWorkbook ==
    (pc # "start" /\ Len(argv) = 2 /\ rootIsDir /\ jsonFiles = << >>) =>
        /\ pc \in {"discovered", "exit"}
        /\ pc = "exit" => exitStatus = 0
        /\ ~wbCreated
        /\ saves = << >>
        /\ contents = << >>

WitnessC7 ==
    /\ pc = "exit"
    /\ exitStatus = 0
    /\ jsonFiles = << >>
    /\ tree # {}

\* C8: the workbook is saved at most once, only after cleanup and after every
\* message of every discovered file has its row, and a run that aborted while
\* parsing has saved nothing.
C8_SingleFinalSave ==
    /\ Len(saves) <= 1
    /\ pc = "crashed" => saves = << >>
    /\ saves # << >> =>
          /\ pc = "done"
          /\ saves[1] = rows
          /\ Len(contents) = Len(jsonFiles)
          /\ Len(rows) = TotalMessages(Len(jsonFiles))
          /\ lastWrapped = MaxRow(rows)

WitnessC8 ==
    /\ pc = "done"
    /\ Len(saves) = 1
    /\ Len(jsonFiles) >= 2
    /\ Len(saves[1]) >= 3

\* C9: main exits with status 1, before discovery and before any workbook
\* exists, when the argument count is wrong or the argument is no directory;
\* a run that reaches the end, the zero-files case included, exits with 0.
C9_ExitStatus ==
    /\ (pc # "start" /\ (Len(argv) # 2 \/ ~rootIsDir)) =>
          /\ pc = "exit"
          /\ exitStatus = 1
          /\ jsonFiles = << >>
          /\ ~wbCreated
          /\ saves = << >>
    /\ pc = "done" => exitStatus = 0
    /\ (pc = "exit" /\ Len(argv) = 2 /\ rootIsDir) => exitStatus = 0

WitnessC9 ==
    /\ pc = "exit"
    /\ exitStatus = 1
    /\ Len(argv) = 2
    /\ ~rootIsDir

\* the same letter, whatever the case
SameLetter(c, d) ==
    \/ c = d
    \/ c \in DOMAIN UpperToLower /\ UpperToLower[c] = d
    \/ d \in DOMAIN UpperToLower /\ UpperToLower[d] = c

EqualIgnoringCase(a, b) ==
    Len(a) = Len(b) /\ \A k \in 1..Len(a) : SameLetter(a[k], b[k])

\* C10: findMessagesJson returns exactly the regular files below the root, at
\* any depth, whose name is 'messages.json' up to case, each of them once.
C10_DiscoveryExact ==
    pc = "discovered" =>
        /\ {jsonFiles[i] : i \in DOMAIN jsonFiles} =
              {RootDir \o n.path :
                  n \in {e \in tree : /\ e.kind = "file"
                                      /\ EqualIgnoringCase(Last(e.path), TargetName)}}
        /\ \A i, j \in DOMAIN jsonFiles : jsonFiles[i] = jsonFiles[j] => i = j

WitnessC10 ==
    /\ pc = "discovered"
    /\ Len(jsonFiles) = 2
    /\ \E i \in DOMAIN jsonFiles : Len(jsonFiles[i]) = Len(RootDir) + 3
    /\ \E i \in DOMAIN jsonFiles : Last(jsonFiles[i]) = MixedName
    /\ \E n \in tree : n.kind = "dir" /\ Last(n.path) = TargetDirName

====
